---- MODULE Spec2Model ----
(***************************************************************************)
(* Wormhole gateway, outbound ("send tBTC") path.                          *)
(*                                                                         *)
(* Models processor/send_tbtc/mod.rs (validate_send and                    *)
(* burn_and_prepare_transfer) and error.rs (WormholeGatewayError).         *)
(* The SPL token program's burn and approve are modelled by what they do   *)
(* to the accounts handed to them; an Err returned by the handler aborts   *)
(* the enclosing transaction, so no account change of a failed call is     *)
(* committed.                                                              *)
(***************************************************************************)
EXTENDS Integers, Sequences, FiniteSets, TLC

\* ------------------------------------------------------------------ bounds
\* Largest token amount drawn as an input.
MaxAmount == 2
\* Longest event log explored.
MaxEvents == 2

\* ---------------------------------------------------------- error taxonomy
\* error.rs: the variants of WormholeGatewayError.
WormholeGatewayError ==
    { "MintingLimitExceeded", "IsNotAuthority", "ZeroRecipient",
      "NotEnoughWrappedTbtc", "ZeroAmount", "TruncatedZeroAmount",
      "TransferAlreadyRedeemed", "InvalidEthereumTbtc", "NoTbtcTransferred",
      "RecipientZeroAddress", "MintedAmountUnderflow" }

\* A table in which two variants share one tag.
ErrorCodeCollapsed(e) ==
    CASE e = "MintingLimitExceeded"    -> 16
      [] e = "IsNotAuthority"          -> 32
      [] e = "ZeroRecipient"           -> 48
      [] e = "NotEnoughWrappedTbtc"    -> 64
      [] e = "ZeroAmount"              -> 48
      [] e = "TruncatedZeroAmount"     -> 96
      [] e = "TransferAlreadyRedeemed" -> 112
      [] e = "InvalidEthereumTbtc"     -> 128
      [] e = "NoTbtcTransferred"       -> 144
      [] e = "RecipientZeroAddress"    -> 160
      [] e = "MintedAmountUnderflow"   -> 176

\* error.rs: the explicit discriminant of each variant (0x10 .. 0xb0).
ErrorCode(e) ==
    CASE e = "MintingLimitExceeded"    -> 16
      [] e = "IsNotAuthority"          -> 32
      [] e = "ZeroRecipient"           -> 48
      [] e = "NotEnoughWrappedTbtc"    -> 64
      [] e = "ZeroAmount"              -> 80
      [] e = "TruncatedZeroAmount"     -> 96
      [] e = "TransferAlreadyRedeemed" -> 112
      [] e = "InvalidEthereumTbtc"     -> 128
      [] e = "NoTbtcTransferred"       -> 144
      [] e = "RecipientZeroAddress"    -> 160
      [] e = "MintedAmountUnderflow"   -> 176

\* Errors of the token program's burn and approve, propagated by `?` and by
\* the tail expression of burn_and_prepare_transfer.
TokenErrors == { "BurnFailed", "ApproveFailed" }

Ok == "Ok"

\* ------------------------------------------------------------------ values
\* [0; 32]: a [u8; 32], indexed 0..31, of zero bytes.
Zero32 == [i \in 0..31 |-> 0]
\* Identifiers used as inputs: all-zero, zero except the last byte, zero
\* except the first byte.
Id32(first, last) == [i \in 0..31 |-> IF i = 0 THEN first ELSE IF i = 31 THEN last ELSE 0]

\* Option<T>
None == [some |-> FALSE]
Some(v) == [some |-> TRUE, val |-> v]
\* Option::unwrap_or_default, with T's Default passed as d.
unwrap_or_default(o, d) == IF o.some THEN o.val ELSE d

\* A subtraction that saturates at zero instead of reporting the underflow.
saturating_sub(a, b) == IF b > a THEN Some(0) ELSE Some(a - b)

\* u64::checked_sub: None when the subtraction would go below zero.
checked_sub(a, b) == IF b > a THEN None ELSE Some(a - b)

\* Account names.
CUSTODIAN == "custodian"
SENDER == "sender"
TOKEN_BRIDGE_TRANSFER_AUTHORITY == "token_bridge_transfer_authority"
\* Custodian::SEED_PREFIX
SEED_PREFIX == "SEED_PREFIX"

\* --------------------------------------------------------------- the state
VARIABLES
    custodian,           \* Account<Custodian>: minted_amount, minting_limit, bump
    tbtc_mint,           \* Account<token::Mint> of the canonical token
    sender_token,        \* the sender's canonical-token account
    wrapped_tbtc_token,  \* the custody account of wrapped tBTC
    events,              \* the program's event log (emit!)
    credited,            \* history: sum of the amounts credited so far
    debited,             \* history: sum of the amounts of successful sends
    last                 \* history: the last call, its result and pre-state

vars == << custodian, tbtc_mint, sender_token, wrapped_tbtc_token, events,
           credited, debited, last >>

\* The accounts a call works on (the fields of PrepareTransfer, with the log).
Accounts ==
    [ custodian          |-> custodian,
      tbtc_mint          |-> tbtc_mint,
      sender_token       |-> sender_token,
      wrapped_tbtc_token |-> wrapped_tbtc_token,
      events             |-> events ]

\* ------------------------------------------------------------------ inputs
\* The non-amount arguments of a send, paired so that every optional field
\* occurs both supplied and omitted.
IntentShapes ==
    { [recipient_chain |-> 2, gateway |-> None, recipient |-> Id32(0, 1),
       arbiter_fee |-> None, nonce |-> 0],
      [recipient_chain |-> 1, gateway |-> Some(Id32(9, 9)), recipient |-> Id32(1, 0),
       arbiter_fee |-> Some(1), nonce |-> 1],
      [recipient_chain |-> 2, gateway |-> Some(Zero32), recipient |-> Zero32,
       arbiter_fee |-> Some(0), nonce |-> 0] }

TransferArgs ==
    { [amount |-> a, recipient_chain |-> t.recipient_chain, gateway |-> t.gateway,
       recipient |-> t.recipient, arbiter_fee |-> t.arbiter_fee, nonce |-> t.nonce] :
         a \in 0..MaxAmount, t \in IntentShapes }

Recipients == { Zero32, Id32(0, 1), Id32(1, 0) }

\* Outcome of the token program beyond what the balances decide: no fault, or
\* a rejected burn, or a rejected approve.
Faults == { "none", "burn", "approve" }

\* ----------------------------------------------------------- validate_send
\* A validator that skips the amount check.
validate_send_no_amount_check(wrapped, recipient, amount) ==
    IF ~(recipient # Zero32) THEN "ZeroRecipient"
    ELSE IF ~(wrapped.amount >= amount) THEN "NotEnoughWrappedTbtc"
    ELSE Ok

\* A validator whose sufficiency check is strict.
validate_send_strict(wrapped, recipient, amount) ==
    IF ~(recipient # Zero32) THEN "ZeroRecipient"
    ELSE IF ~(amount > 0) THEN "ZeroAmount"
    ELSE IF ~(wrapped.amount > amount) THEN "NotEnoughWrappedTbtc"
    ELSE Ok

\* A validator that checks the amount before the recipient.
validate_send_reordered(wrapped, recipient, amount) ==
    IF ~(amount > 0) THEN "ZeroAmount"
    ELSE IF ~(recipient # Zero32) THEN "ZeroRecipient"
    ELSE IF ~(wrapped.amount >= amount) THEN "NotEnoughWrappedTbtc"
    ELSE Ok

\* A validator that counts only the custody balance not yet delegated.
validate_send_net_of_delegation(wrapped, recipient, amount) ==
    IF ~(recipient # Zero32) THEN "ZeroRecipient"
    ELSE IF ~(amount > 0) THEN "ZeroAmount"
    ELSE IF ~(wrapped.amount - wrapped.delegated_amount >= amount)
         THEN "NotEnoughWrappedTbtc"
    ELSE Ok

\* mod.rs validate_send: require!, require_gt!, require_gte! in this order.
validate_send(wrapped, recipient, amount) ==
    IF ~(recipient # Zero32) THEN "ZeroRecipient"
    ELSE IF ~(amount > 0) THEN "ZeroAmount"
    ELSE IF ~(wrapped.amount >= amount) THEN "NotEnoughWrappedTbtc"
    ELSE Ok

\* ----------------------------------------------------------- token program
\* The accounts that have signed a CPI: the transaction's signer and the
\* program address derived from the signer seeds, which is the custodian's
\* exactly when the seeds are its prefix and stored bump.
Signers(acc, seeds) ==
    {SENDER} \cup
      (IF seeds = << SEED_PREFIX, acc.custodian.bump >> THEN {CUSTODIAN} ELSE {})

\* token::burn on the sender's account: rejected unless the authority owns
\* the account, has signed, and the balance covers the amount.
token_burn(acc, cpi, fault) ==
    IF \/ fault = "burn"
       \/ cpi.authority # acc.sender_token.owner
       \/ cpi.authority \notin Signers(acc, cpi.seeds)
       \/ acc.sender_token.amount < cpi.amount
    THEN [result |-> "BurnFailed", acc |-> acc]
    ELSE [result |-> Ok,
          acc |-> [acc EXCEPT !.sender_token.amount = @ - cpi.amount,
                              !.tbtc_mint.supply = @ - cpi.amount]]

\* token::approve on the custody account: rejected unless the authority owns
\* the account and has signed; sets the delegate and the delegated amount.
token_approve(acc, cpi, fault) ==
    IF \/ fault = "approve"
       \/ cpi.authority # acc.wrapped_tbtc_token.owner
       \/ cpi.authority \notin Signers(acc, cpi.seeds)
    THEN [result |-> "ApproveFailed", acc |-> acc]
    ELSE [result |-> Ok,
          acc |-> [acc EXCEPT !.wrapped_tbtc_token.delegate = Some(cpi.delegate),
                              !.wrapped_tbtc_token.delegated_amount = cpi.amount]]

\* --------------------------------------------------- burn_and_prepare_transfer
\* An event whose optional fields default to other arguments of the call.
WormholeTbtcSentBadDefaults(args) ==
    [ amount          |-> args.amount,
      recipient_chain |-> args.recipient_chain,
      gateway         |-> unwrap_or_default(args.gateway, args.recipient),
      recipient       |-> args.recipient,
      arbiter_fee     |-> unwrap_or_default(args.arbiter_fee, args.amount),
      nonce           |-> args.nonce ]

\* An event that records the amount net of the arbiter fee.
WormholeTbtcSentNetOfFee(args) ==
    [ amount          |-> args.amount - unwrap_or_default(args.arbiter_fee, 0),
      recipient_chain |-> args.recipient_chain,
      gateway         |-> unwrap_or_default(args.gateway, Zero32),
      recipient       |-> args.recipient,
      arbiter_fee     |-> unwrap_or_default(args.arbiter_fee, 0),
      nonce           |-> args.nonce ]

\* crate::event::WormholeTbtcSent as built at the emit!.
WormholeTbtcSent(args) ==
    [ amount          |-> args.amount,
      recipient_chain |-> args.recipient_chain,
      gateway         |-> unwrap_or_default(args.gateway, Zero32),
      recipient       |-> args.recipient,
      arbiter_fee     |-> unwrap_or_default(args.arbiter_fee, 0),
      nonce           |-> args.nonce ]

\* A burn CPI that burns the sender's whole balance.
BurnCpiWholeBalance(acc, amount) ==
    [ step |-> "burn", mint |-> "tbtc_mint", from |-> "sender_token",
      authority |-> SENDER, seeds |-> << >>, amount |-> acc.sender_token.amount ]

\* The burn CPI: CpiContext::new with token::Burn, signed by the sender only.
BurnCpi(acc, amount) ==
    [ step |-> "burn", mint |-> "tbtc_mint", from |-> "sender_token",
      authority |-> SENDER, seeds |-> << >>, amount |-> amount ]

\* An approve CPI that delegates the whole custody balance.
ApproveCpiWholeBalance(acc, amount) ==
    [ step |-> "approve", to |-> "wrapped_tbtc_token",
      delegate |-> TOKEN_BRIDGE_TRANSFER_AUTHORITY, authority |-> CUSTODIAN,
      seeds |-> << SEED_PREFIX, acc.custodian.bump >>,
      amount |-> acc.wrapped_tbtc_token.amount ]

\* The approve CPI: CpiContext::new_with_signer with token::Approve and the
\* custodian's seeds.
ApproveCpi(acc, amount) ==
    [ step |-> "approve", to |-> "wrapped_tbtc_token",
      delegate |-> TOKEN_BRIDGE_TRANSFER_AUTHORITY, authority |-> CUSTODIAN,
      seeds |-> << SEED_PREFIX, acc.custodian.bump >>, amount |-> amount ]

\* The record of the emit! step.
EmitStep(ev) ==
    [ step |-> "emit", event |-> ev ]

\* mod.rs burn_and_prepare_transfer.  The value of checked_sub is only tested
\* for None: the statement ends at `?;` and assigns nothing.
burn_and_prepare_transfer(acc, args, fault) ==
    LET amount == args.amount
        sub    == checked_sub(acc.custodian.minted_amount, amount)
    IN  IF ~sub.some
        THEN [result |-> "MintedAmountUnderflow", acc |-> acc, trace |-> << >>]
        ELSE
        LET bc == BurnCpi(acc, amount)
            b  == token_burn(acc, bc, fault)
        IN  IF b.result # Ok
            THEN [result |-> b.result, acc |-> b.acc, trace |-> << bc >>]
            ELSE
            LET ev   == WormholeTbtcSent(args)
                acc2 == [b.acc EXCEPT !.events = Append(@, ev)]
                ac   == ApproveCpi(acc2, amount)
                a    == token_approve(acc2, ac, fault)
            IN  [result |-> a.result, acc |-> a.acc,
                 trace |-> << bc, EmitStep(ev), ac >>]

\* A call whose account changes stay behind when it fails.
CommitPartial(pre, r) ==
    r.acc

\* What a call leaves behind: its account changes when it returned Ok, the
\* accounts as they were when it returned an Err (the Err fails the
\* transaction).
Commit(pre, r) ==
    IF r.result = Ok THEN r.acc ELSE pre

\* The next-state values of the account variables.
Install(acc) ==
    /\ custodian' = acc.custodian
    /\ tbtc_mint' = acc.tbtc_mint
    /\ sender_token' = acc.sender_token
    /\ wrapped_tbtc_token' = acc.wrapped_tbtc_token
    /\ events' = acc.events

NoArgs == [amount |-> 0]

\* ----------------------------------------------------------------- actions
Init ==
    /\ custodian = [minted_amount |-> 0, minting_limit |-> MaxAmount, bump |-> 255]
    /\ \E b \in {0, MaxAmount} :
         /\ sender_token = [amount |-> b, owner |-> SENDER]
         /\ tbtc_mint = [supply |-> b]
    /\ wrapped_tbtc_token = [amount |-> 0, owner |-> CUSTODIAN,
                             delegate |-> None, delegated_amount |-> 0]
    /\ events = << >>
    /\ credited = 0
    /\ debited = 0
    /\ last = [op |-> "init", args |-> NoArgs, fault |-> "none", result |-> Ok,
               trace |-> << >>, pre |-> Accounts]

\* A call of validate_send on the custody account.
ValidateSend ==
    \E recipient \in Recipients, amount \in 0..MaxAmount :
      /\ last' = [op |-> "validate_send",
                  args |-> [amount |-> amount, recipient |-> recipient],
                  fault |-> "none",
                  result |-> validate_send(wrapped_tbtc_token, recipient, amount),
                  trace |-> << >>, pre |-> Accounts]
      /\ UNCHANGED << custodian, tbtc_mint, sender_token, wrapped_tbtc_token,
                      events, credited, debited >>

\* A call of burn_and_prepare_transfer.
BurnAndPrepareTransfer ==
    \E args \in TransferArgs, fault \in Faults :
      LET r == burn_and_prepare_transfer(Accounts, args, fault) IN
      /\ Len(Commit(Accounts, r).events) <= MaxEvents
      /\ Install(Commit(Accounts, r))
      /\ debited' = IF r.result = Ok THEN debited + args.amount ELSE debited
      /\ last' = [op |-> "burn_and_prepare_transfer", args |-> args, fault |-> fault,
                  result |-> r.result, trace |-> r.trace, pre |-> Accounts]
      /\ UNCHANGED credited

\* The send instruction: validate_send as the handler's access control, then
\* burn_and_prepare_transfer.
SendTbtc ==
    \E args \in TransferArgs, fault \in Faults :
      LET v == validate_send(wrapped_tbtc_token, args.recipient, args.amount)
          r == IF v # Ok
               THEN [result |-> v, acc |-> Accounts, trace |-> << >>]
               ELSE burn_and_prepare_transfer(Accounts, args, fault)
      IN
      /\ Len(Commit(Accounts, r).events) <= MaxEvents
      /\ Install(Commit(Accounts, r))
      /\ debited' = IF r.result = Ok THEN debited + args.amount ELSE debited
      /\ last' = [op |-> "send_tbtc", args |-> args, fault |-> fault,
                  result |-> r.result, trace |-> r.trace, pre |-> Accounts]
      /\ UNCHANGED credited

\* The inbound path's ledger credit: wrapped tBTC arrives in custody and the
\* same amount of canonical tBTC is minted, within the minting limit.
Credit ==
    \E amount \in 1..MaxAmount :
      LET ok == custodian.minted_amount + amount <= custodian.minting_limit IN
      /\ custodian' = IF ok THEN [custodian EXCEPT !.minted_amount = @ + amount]
                      ELSE custodian
      /\ wrapped_tbtc_token' = IF ok THEN [wrapped_tbtc_token EXCEPT !.amount = @ + amount]
                               ELSE wrapped_tbtc_token
      /\ sender_token' = IF ok THEN [sender_token EXCEPT !.amount = @ + amount]
                         ELSE sender_token
      /\ tbtc_mint' = IF ok THEN [tbtc_mint EXCEPT !.supply = @ + amount] ELSE tbtc_mint
      /\ credited' = IF ok THEN credited + amount ELSE credited
      /\ last' = [op |-> "credit", args |-> [amount |-> amount], fault |-> "none",
                  result |-> IF ok THEN Ok ELSE "MintingLimitExceeded",
                  trace |-> << >>, pre |-> Accounts]
      /\ UNCHANGED << events, debited >>

Next == ValidateSend \/ BurnAndPrepareTransfer \/ Credit

Spec == Init /\ [][Next]_vars

\* The program as its instructions drive it: sends go through the validator.
NextSend == SendTbtc \/ Credit

SendSpec == Init /\ [][NextSend]_vars

\* A run of sends executed one after another with no credit in between: it
\* starts in a state that credits of m in total have led to, with
\* minted_amount = m, and takes only burn_and_prepare_transfer steps.
InitSerial ==
    \E m \in 0..MaxAmount, b \in {0, MaxAmount} :
      /\ custodian = [minted_amount |-> m, minting_limit |-> MaxAmount, bump |-> 255]
      /\ sender_token = [amount |-> b + m, owner |-> SENDER]
      /\ tbtc_mint = [supply |-> b + m]
      /\ wrapped_tbtc_token = [amount |-> m, owner |-> CUSTODIAN,
                               delegate |-> None, delegated_amount |-> 0]
      /\ events = << >>
      /\ credited = m
      /\ debited = 0
      /\ last = [op |-> "init", args |-> NoArgs, fault |-> "none", result |-> Ok,
                 trace |-> << >>, pre |-> Accounts]

NextSerial == BurnAndPrepareTransfer

SerialSpec == InitSerial /\ [][NextSerial]_vars

\* ------------------------------------------------------------------ claims
\* The last call was burn_and_prepare_transfer / validate_send / the send
\* instruction.
LastIsBurn == last.op = "burn_and_prepare_transfer"
LastIsValidate == last.op = "validate_send"
LastIsSend == last.op = "send_tbtc"

\* The identifier has a non-zero byte.
NonZeroId(id) == \E i \in 0..31 : id[i] # 0

\* C1: whenever burn_and_prepare_transfer returns success, minted_amount
\* after the call is its value before the call minus exactly amount.
C1_SuccessDebitsLedger ==
    (LastIsBurn /\ last.result = Ok)
      => custodian.minted_amount = last.pre.custodian.minted_amount - last.args.amount

\* C2: in every reachable state minted_amount equals the sum of the credited
\* amounts minus the sum of the amounts of the successful sends, and is never
\* negative.
C2_LedgerIsCreditsMinusDebits ==
    /\ custodian.minted_amount = credited - debited
    /\ custodian.minted_amount >= 0

\* C3: a call with amount > minted_amount fails with MintedAmountUnderflow,
\* leaves minted_amount at its pre-call value and performs no burn, no event
\* and no approve; a call with amount <= minted_amount never fails with
\* MintedAmountUnderflow.
C3_UnderflowRejected ==
    LastIsBurn =>
      /\ (last.args.amount > last.pre.custodian.minted_amount =>
            /\ last.result = "MintedAmountUnderflow"
            /\ custodian.minted_amount = last.pre.custodian.minted_amount
            /\ last.trace = << >>
            /\ sender_token = last.pre.sender_token
            /\ tbtc_mint = last.pre.tbtc_mint
            /\ events = last.pre.events
            /\ wrapped_tbtc_token = last.pre.wrapped_tbtc_token)
      /\ (last.args.amount <= last.pre.custodian.minted_amount =>
            last.result # "MintedAmountUnderflow")

\* C3 witness: an underflow was rejected although the sender could have paid
\* the burn.
C3_Witness ==
    /\ LastIsBurn
    /\ last.result = "MintedAmountUnderflow"
    /\ last.args.amount > last.pre.custodian.minted_amount
    /\ last.pre.sender_token.amount >= last.args.amount
    /\ last.fault = "none"

C5_ValidateSendIff ==
    LastIsValidate =>
      (last.result = Ok <=>
         /\ NonZeroId(last.args.recipient)
         /\ last.args.amount > 0
         /\ last.pre.wrapped_tbtc_token.amount >= last.args.amount)

\* C5 witness: validate_send succeeded with the custody balance equal to the
\* amount.
C5_Witness ==
    /\ LastIsValidate
    /\ last.result = Ok
    /\ last.args.amount > 0
    /\ last.pre.wrapped_tbtc_token.amount = last.args.amount

\* C6: a failing validate_send reports the first failing check in the order
\* recipient, amount, balance.
C6_ValidateSendOrder ==
    LastIsValidate =>
      /\ (~NonZeroId(last.args.recipient) => last.result = "ZeroRecipient")
      /\ (NonZeroId(last.args.recipient) /\ last.args.amount = 0
            => last.result = "ZeroAmount")
      /\ ((NonZeroId(last.args.recipient)
             /\ last.args.amount # 0
             /\ last.pre.wrapped_tbtc_token.amount < last.args.amount)
            => last.result = "NotEnoughWrappedTbtc")

\* C6 witness: validate_send(balance = 0, recipient = zero, amount = 0)
\* returned ZeroRecipient.
C6_Witness ==
    /\ LastIsValidate
    /\ last.pre.wrapped_tbtc_token.amount = 0
    /\ ~NonZeroId(last.args.recipient)
    /\ last.args.amount = 0
    /\ last.result = "ZeroRecipient"

\* C7: every send that takes effect (succeeds, or changes any account or the
\* event log) has amount > 0, a recipient that is not all-zero and a custody
\* balance of at least amount at the time of the call.
C7_EffectiveSendIsValid ==
    (LastIsSend /\ (last.result = Ok \/ Accounts # last.pre \/ last.trace # << >>)) =>
      /\ last.args.amount > 0
      /\ NonZeroId(last.args.recipient)
      /\ last.pre.wrapped_tbtc_token.amount >= last.args.amount

\* C7 witness: a send took effect: tokens were burned, an event was logged
\* and the custody account was delegated.
C7_Witness ==
    /\ LastIsSend
    /\ last.result = Ok
    /\ sender_token.amount < last.pre.sender_token.amount
    /\ Len(events) = Len(last.pre.events) + 1
    /\ wrapped_tbtc_token.delegate = Some(TOKEN_BRIDGE_TRANSFER_AUTHORITY)

\* C8: a successful burn_and_prepare_transfer appends exactly one event that
\* carries the call's amount, recipient_chain, recipient and nonce, the
\* gateway override or the all-zero identifier, and the supplied arbiter fee
\* or 0; omitted optional fields cause no error.
C8_SentEvent ==
    LastIsBurn =>
      /\ (last.result = Ok =>
            /\ Len(events) = Len(last.pre.events) + 1
            /\ SubSeq(events, 1, Len(last.pre.events)) = last.pre.events
            /\ LET e == events[Len(events)] IN
                 /\ e.amount = last.args.amount
                 /\ e.recipient_chain = last.args.recipient_chain
                 /\ e.recipient = last.args.recipient
                 /\ e.nonce = last.args.nonce
                 /\ (last.args.gateway.some => e.gateway = last.args.gateway.val)
                 /\ (~last.args.gateway.some => ~NonZeroId(e.gateway))
                 /\ (last.args.arbiter_fee.some => e.arbiter_fee = last.args.arbiter_fee.val)
                 /\ (~last.args.arbiter_fee.some => e.arbiter_fee = 0))
      /\ ((last.fault = "none"
             /\ last.args.amount <= last.pre.custodian.minted_amount
             /\ last.args.amount <= last.pre.sender_token.amount)
            => last.result = Ok)

\* C8 witness: a successful call with both optional fields omitted.
C8_Witness ==
    /\ LastIsBurn
    /\ last.result = Ok
    /\ ~last.args.gateway.some
    /\ ~last.args.arbiter_fee.some
    /\ last.args.amount > 0
    /\ Len(events) = Len(last.pre.events) + 1

\* C9: after a successful burn_and_prepare_transfer(amount) the custody
\* account shows exactly amount delegated to the bridge's transfer authority,
\* granted under the custodian's derived authority and not the sender's.
C9_Delegation ==
    (LastIsBurn /\ last.result = Ok) =>
      /\ wrapped_tbtc_token.delegate = Some(TOKEN_BRIDGE_TRANSFER_AUTHORITY)
      /\ wrapped_tbtc_token.delegated_amount = last.args.amount
      /\ Len(last.trace) = 3
      /\ last.trace[3].step = "approve"
      /\ last.trace[3].authority = CUSTODIAN
      /\ last.trace[3].authority # SENDER
      /\ last.trace[3].seeds = << SEED_PREFIX, custodian.bump >>

\* C9 witness: a successful call changed the delegated amount to an amount
\* that differs from the custody balance.
C9_Witness ==
    /\ LastIsBurn
    /\ last.result = Ok
    /\ last.args.amount > 0
    /\ last.pre.wrapped_tbtc_token.delegated_amount # last.args.amount
    /\ wrapped_tbtc_token.delegated_amount = last.args.amount
    /\ wrapped_tbtc_token.amount # last.args.amount

\* C10: the taxonomy has eleven kinds with pairwise distinct codes, and every
\* failure of validate_send and of the ledger debit carries the code of its
\* own kind: the code tells which check failed.
C10_DistinctErrorKinds ==
    /\ Cardinality(WormholeGatewayError) = 11
    /\ \A a, b \in WormholeGatewayError : a # b => ErrorCode(a) # ErrorCode(b)
    /\ ((LastIsValidate /\ last.result # Ok) =>
         /\ last.result \in WormholeGatewayError
         /\ (ErrorCode(last.result) = ErrorCode("ZeroRecipient")
               <=> ~NonZeroId(last.args.recipient))
         /\ (ErrorCode(last.result) = ErrorCode("ZeroAmount")
               <=> (NonZeroId(last.args.recipient) /\ last.args.amount = 0))
         /\ (ErrorCode(last.result) = ErrorCode("NotEnoughWrappedTbtc")
               <=> (NonZeroId(last.args.recipient)
                      /\ last.args.amount > 0
                      /\ last.pre.wrapped_tbtc_token.amount < last.args.amount)))
    /\ ((LastIsBurn /\ last.result \in WormholeGatewayError) =>
         /\ ErrorCode(last.result) = ErrorCode("MintedAmountUnderflow")
         /\ last.args.amount > last.pre.custodian.minted_amount)

\* C10 witness: validate_send failed on the amount check.
C10_Witness ==
    /\ LastIsValidate
    /\ last.result = "ZeroAmount"
    /\ NonZeroId(last.args.recipient)

\* The names of the steps a call has taken, in order.
StepNames(trace) == [i \in 1..Len(trace) |-> trace[i].step]

\* The order of the steps of a burn_and_prepare_transfer call: nothing is
\* attempted when the underflow check fails, the burn comes first, the event
\* follows only a burn that succeeded, the approve follows the event.
C11_StepOrder ==
    LastIsBurn =>
      /\ (last.args.amount > last.pre.custodian.minted_amount =>
            (last.result = "MintedAmountUnderflow" /\ last.trace = << >>))
      /\ (last.trace # << >> => last.args.amount <= last.pre.custodian.minted_amount)
      /\ StepNames(last.trace) \in { << >>, << "burn" >>, << "burn", "emit", "approve" >> }
      /\ (StepNames(last.trace) = << "burn" >> <=> last.result = "BurnFailed")
      /\ (Len(last.trace) = 3 <=> last.result \in { Ok, "ApproveFailed" })
      /\ (last.result = Ok => Len(events) = Len(last.pre.events) + 1)

\* C11: within one call the steps occur in the order underflow check, burn,
\* event, approve, each only after the one before it succeeded, and a
\* successful call performs exactly one burn, one ledger debit, one event and
\* one delegation.
C11_OrderedStepsOnce ==
    /\ C11_StepOrder
    /\ ((LastIsBurn /\ last.result = Ok) =>
          /\ last.pre.sender_token.amount - sender_token.amount = last.args.amount
          /\ last.pre.custodian.minted_amount - custodian.minted_amount = last.args.amount
          /\ wrapped_tbtc_token.delegated_amount = last.args.amount)

\* C12: when sends run one after another with no credit in between, starting
\* from minted_amount = m, the total amount of the successful sends never
\* exceeds m (two sends of a and b both succeed only if a + b <= m).
C12_SerialSendsWithinLedger ==
    debited <= credited

\* C13: the ledger and the canonical token stay consistent: what a
\* successful send burns from the sender equals what it takes off
\* minted_amount, and a failed send does neither, so the totals over any
\* sequence of sends agree.
C13_BurnMatchesDebit ==
    (LastIsBurn \/ LastIsSend) =>
      /\ last.pre.sender_token.amount - sender_token.amount
           = last.pre.custodian.minted_amount - custodian.minted_amount
      /\ last.pre.tbtc_mint.supply - tbtc_mint.supply
           = last.pre.custodian.minted_amount - custodian.minted_amount

\* The result of validate_send as a function of its three inputs alone.
ValidateSendResult(custody_balance, recipient, amount) ==
    CASE ~NonZeroId(recipient)      -> "ZeroRecipient"
      [] NonZeroId(recipient) /\ amount = 0 -> "ZeroAmount"
      [] NonZeroId(recipient) /\ amount # 0 /\ custody_balance < amount
                                    -> "NotEnoughWrappedTbtc"
      [] OTHER                      -> Ok

\* C14: validate_send is a pure check: whether it succeeds or fails it leaves
\* minted_amount, minting_limit, the sender balance, the custody balance, the
\* custody delegation and the event log unchanged, and its result depends on
\* (custody_balance, recipient, amount) only.
C14_ValidateSendPure ==
    LastIsValidate =>
      /\ custodian = last.pre.custodian
      /\ sender_token = last.pre.sender_token
      /\ tbtc_mint = last.pre.tbtc_mint
      /\ wrapped_tbtc_token = last.pre.wrapped_tbtc_token
      /\ events = last.pre.events
      /\ last.result = ValidateSendResult(last.pre.wrapped_tbtc_token.amount,
                                          last.args.recipient, last.args.amount)

\* C14 witness: validate_send succeeded on a custody account that carries a
\* delegation, after an event had been logged.
C14_Witness ==
    /\ LastIsValidate
    /\ last.result = Ok
    /\ wrapped_tbtc_token.delegated_amount > 0
    /\ events # << >>
    /\ custodian.minted_amount > 0

\* C15: a successful burn_and_prepare_transfer(amount) reduces the sender's
\* canonical-token balance by exactly amount and leaves the custodian's
\* minting_limit and bump and the custody account's wrapped-token balance
\* unchanged.
C15_SuccessFrame ==
    (LastIsBurn /\ last.result = Ok) =>
      /\ sender_token.amount = last.pre.sender_token.amount - last.args.amount
      /\ custodian.minting_limit = last.pre.custodian.minting_limit
      /\ custodian.bump = last.pre.custodian.bump
      /\ wrapped_tbtc_token.amount = last.pre.wrapped_tbtc_token.amount
      /\ wrapped_tbtc_token.owner = last.pre.wrapped_tbtc_token.owner

\* C15 witness: a successful send of a positive amount that is less than the
\* sender's balance, on a custody account holding wrapped tokens, set the
\* delegation.
C15_Witness ==
    /\ LastIsBurn
    /\ last.result = Ok
    /\ last.args.amount > 0
    /\ last.pre.sender_token.amount > last.args.amount
    /\ wrapped_tbtc_token.amount > 0
    /\ wrapped_tbtc_token.delegated_amount = last.args.amount
    /\ last.pre.wrapped_tbtc_token.delegated_amount # last.args.amount

\* C16: in every successful send one value is used throughout: the amount
\* burned from the sender, the amount in the 'sent' event and the amount
\* delegated on the custody account all equal the call's amount argument.
C16_SameAmountThroughout ==
    (LastIsBurn /\ last.result = Ok) =>
      /\ Len(last.trace) = 3
      /\ last.trace[1].step = "burn"
      /\ last.trace[1].amount = last.args.amount
      /\ last.pre.sender_token.amount - sender_token.amount = last.args.amount
      /\ last.pre.tbtc_mint.supply - tbtc_mint.supply = last.args.amount
      /\ last.trace[2].step = "emit"
      /\ last.trace[2].event.amount = last.args.amount
      /\ events[Len(events)].amount = last.args.amount
      /\ last.trace[3].step = "approve"
      /\ last.trace[3].amount = last.args.amount
      /\ wrapped_tbtc_token.delegated_amount = last.args.amount

\* C16 witness: a successful send of a positive amount with an arbiter fee
\* supplied, of an amount that is neither the sender's nor the custody
\* account's whole balance.
C16_Witness ==
    /\ LastIsBurn
    /\ last.result = Ok
    /\ last.args.amount > 0
    /\ last.args.arbiter_fee.some
    /\ last.args.arbiter_fee.val > 0
    /\ last.pre.sender_token.amount # last.args.amount
    /\ last.pre.wrapped_tbtc_token.amount # last.args.amount
    /\ Len(events) = Len(last.pre.events) + 1

TypeOK ==
    /\ custodian.minted_amount \in 0..MaxAmount
    /\ sender_token.amount \in Nat
    /\ wrapped_tbtc_token.amount \in Nat
    /\ Len(events) <= MaxEvents
    /\ last.result \in {Ok} \cup WormholeGatewayError \cup TokenErrors

====
